---- MODULE Spec2Model ----
(***************************************************************************)
(* Model of the design-primer request handler of app.py: one handler call  *)
(* per request, translated statement group by statement group, with the    *)
(* external primer-design library as a nondeterministic environment.       *)
(***************************************************************************)
EXTENDS Integers, Sequences, FiniteSets, TLC

(* ------------------------------ bounds --------------------------------- *)

\* number of handler calls the serving layer may run at the same time
NumHandlers == 2
\* longest template sequence of a request
MaxSeqLen == 52
\* largest number of internal oligos the library reports
MaxInternal == 2

\* max(primer_length * 2, 50): the floor of the product size
MinProduct == 50
\* 'PRIMER_NUM_RETURN': 1
NumReturn == 1

Handlers == 1..NumHandlers

\* A sequence is a string of which the handler only takes the length and
\* which it passes on unread; it is modelled by its length.
SeqLens == 49..MaxSeqLen
PrimerLens == {-1, 0, 1, 24, 25, 26, 30}
GcValues == {40, 55}

PrimerDesignRequest ==
    [sequence : [len : SeqLens], primer_length : PrimerLens, gc_content : GcValues]

\* the requests of the concurrent specification: L = 50 with P = 25, which the
\* guard passes, and with P = 30, which it rejects
ConcRequests ==
    { r \in PrimerDesignRequest :
        /\ r.sequence.len = 50
        /\ r.primer_length \in {25, 30} }

(* ------------------------------ helpers -------------------------------- *)

Len_(s) == s.len

max(a, b) == IF a > b THEN a ELSE b

PrimerDetail(sequence, tm, gc_percent, penalty, start, length) ==
    [sequence |-> sequence, tm |-> tm, gc_percent |-> gc_percent,
     penalty |-> penalty, start |-> start, length |-> length]

PrimerResponse(left_primer, right_primer, internal_primers) ==
    [left_primer |-> left_primer, right_primer |-> right_primer,
     internal_primers |-> internal_primers]

NoDetail == PrimerDetail(<<>>, 0, 0, 0, 0, 0)
NoResponse == PrimerResponse(NoDetail, NoDetail, <<>>)

(* ------------------- the external primer-design library ---------------- *)

\* One designed oligo of the result mapping: the keys PRIMER_<kind>_<i>_SEQUENCE,
\* _TM, _GC_PERCENT, _PENALTY and the position pair PRIMER_<kind>_<i>.
Oligo(kind, start, length, tm, gc, penalty) ==
    [SEQUENCE |-> <<kind, start, length>>, TM |-> tm, GC_PERCENT |-> gc,
     PENALTY |-> penalty, POS |-> <<start, length>>]

\* The result mapping: the counts the library reports, and per kind the oligos
\* it holds; the key of oligo i of a kind exists iff i < Len(of that kind).
LibraryResult(left, right, internal) ==
    [PRIMER_LEFT_NUM_RETURNED |-> Len(left),
     PRIMER_RIGHT_NUM_RETURNED |-> Len(right),
     PRIMER_INTERNAL_NUM_RETURNED |-> Len(internal),
     PRIMER_PAIR_NUM_RETURNED |-> IF Len(left) < Len(right) THEN Len(left) ELSE Len(right),
     PRIMER_LEFT |-> left, PRIMER_RIGHT |-> right, PRIMER_INTERNAL |-> internal]

NoResult == LibraryResult(<<>>, <<>>, <<>>)

HasKey(primer_results, kind, i) == i >= 0 /\ i < Len(primer_results[kind])
Key(primer_results, kind, i) == primer_results[kind][i + 1]

\* The library refuses a primer size below 1 or bounds that do not enclose the optimum.
LibraryAccepts(seq_args, global_args) ==
    /\ global_args.PRIMER_MIN_SIZE >= 1
    /\ global_args.PRIMER_MIN_SIZE <= global_args.PRIMER_OPT_SIZE
    /\ global_args.PRIMER_OPT_SIZE <= global_args.PRIMER_MAX_SIZE

\* The pairs the library may design: both primers inside the included region,
\* of a size within the global bounds, spanning a product within the size range.
\* A right primer's position is that of its 5' end, its rightmost base.
PairChoices(seq_args, global_args) ==
    LET first == seq_args.SEQUENCE_INCLUDED_REGION[1]
        last == first + seq_args.SEQUENCE_INCLUDED_REGION[2] - 1
        range == global_args.PRIMER_PRODUCT_SIZE_RANGE[1]
    IN { c \in [ls : {first, first + 1}, rs : {last, last - 1},
                size : global_args.PRIMER_MIN_SIZE..global_args.PRIMER_MAX_SIZE] :
           /\ c.ls + c.size - 1 <= last
           /\ c.rs - c.size + 1 >= first
           /\ c.rs - c.ls + 1 >= range[1]
           /\ c.rs - c.ls + 1 <= range[2] }

InternalOligos(c, n, gc) ==
    [i \in 1..n |-> Oligo("INTERNAL", c.ls + i, c.size, 70 + i, gc, 2 + i)]

\* What designPrimers may return for these arguments: no primer at all, or at
\* most PRIMER_NUM_RETURN pairs with any number of internal oligos up to MaxInternal.
designPrimers(seq_args, global_args) ==
    IF ~LibraryAccepts(seq_args, global_args) THEN {}
    ELSE {NoResult} \cup
         { LibraryResult(
             <<Oligo("LEFT", c.ls, c.size, 60, global_args.PRIMER_OPT_GC_PERCENT, 0)>>,
             <<Oligo("RIGHT", c.rs, c.size, 61, global_args.PRIMER_OPT_GC_PERCENT, 1)>>,
             InternalOligos(c, n, global_args.PRIMER_OPT_GC_PERCENT)) :
             c \in PairChoices(seq_args, global_args), n \in 0..MaxInternal }

(* ------------------------------- state --------------------------------- *)

VARIABLES
    pc,        \* per handler call: the statement it is at ("idle": no request)
    request,   \* per handler call: the PrimerDesignRequest it was given
    locals,    \* per frame: the local variables of design_primer
    libcall,   \* per handler call: the arguments the library was called with
    libret,    \* per handler call: what the library did: raised, or returned a mapping
    calls,     \* per handler call: how often it invoked designPrimers
    reads,     \* per handler call: the indexed result keys <<kind, i>> it read
    outcome    \* per handler call: the error raised or the response returned

vars == <<pc, request, locals, libcall, libret, calls, reads, outcome>>

\* Every call of design_primer has a frame of local variables of its own.
Frame_shared(h) == 1
Frame(h) == h

NoRequest == [sequence |-> [len |-> 0], primer_length |-> 0, gc_content |-> 0]
NoArgs == [seq_args |-> <<>>, global_args |-> <<>>]
NoReturn == [status |-> "none", result |-> NoResult]
NoOutcome == [kind |-> "none", response |-> NoResponse]

NoLocals ==
    [sequence |-> [len |-> 0], primer_length |-> 0, gc_content |-> 0,
     sequence_length |-> 0, min_product_size |-> 0, max_product_size |-> 0,
     product_size_range |-> <<>>, primer_design_input |-> <<>>,
     primer_results |-> NoResult,
     left_primer |-> <<>>, right_primer |-> <<>>,
     left_primer_tm |-> 0, right_primer_tm |-> 0,
     left_primer_gc |-> 0, right_primer_gc |-> 0,
     left_primer_penalty |-> 0, right_primer_penalty |-> 0,
     internal_primers |-> <<>>, i |-> 0]

Init ==
    /\ pc = [h \in Handlers |-> "idle"]
    /\ request = [h \in Handlers |-> NoRequest]
    /\ locals = [h \in Handlers |-> NoLocals]
    /\ libcall = [h \in Handlers |-> NoArgs]
    /\ libret = [h \in Handlers |-> NoReturn]
    /\ calls = [h \in Handlers |-> 0]
    /\ reads = [h \in Handlers |-> {}]
    /\ outcome = [h \in Handlers |-> NoOutcome]

\* an exception leaves the handler: the request ends with that error
Raise(h, kind) ==
    /\ pc' = [pc EXCEPT ![h] = "done"]
    /\ outcome' = [outcome EXCEPT ![h] = [kind |-> kind, response |-> NoResponse]]

(* ------------------------ design_primer, by statement ------------------ *)

\* the serving layer hands a request to a handler call
Receive(h, requests) ==
    /\ pc[h] = "idle"
    /\ \E r \in requests : request' = [request EXCEPT ![h] = r]
    /\ pc' = [pc EXCEPT ![h] = "l49"]
    /\ UNCHANGED <<locals, libcall, libret, calls, reads, outcome>>

MinProductSize_double(primer_length) == primer_length * 2
MinProductSize(primer_length) == max(primer_length * 2, MinProduct)

MaxProductSize_plus(sequence_length) == sequence_length + 1
MaxProductSize(sequence_length) == sequence_length

\* lines 49-58
ReadRequest(h) ==
    /\ pc[h] = "l49"
    /\ locals' = [locals EXCEPT ![Frame(h)] =
         [@ EXCEPT !.sequence = request[h].sequence,
                   !.primer_length = request[h].primer_length,
                   !.gc_content = request[h].gc_content,
                   !.sequence_length = Len_(request[h].sequence),
                   !.min_product_size = MinProductSize(request[h].primer_length),
                   !.max_product_size = MaxProductSize(Len_(request[h].sequence))]]
    /\ pc' = [pc EXCEPT ![h] = "l60"]
    /\ UNCHANGED <<request, libcall, libret, calls, reads, outcome>>

TooShort_ge(min_product_size, max_product_size) == min_product_size >= max_product_size
TooShort(min_product_size, max_product_size) == min_product_size > max_product_size

\* lines 60-61
Guard(h) ==
    /\ pc[h] = "l60"
    /\ LET l == locals[Frame(h)] IN
         IF TooShort(l.min_product_size, l.max_product_size)
         THEN Raise(h, "ValueError")
         ELSE /\ pc' = [pc EXCEPT ![h] = "l64"]
              /\ UNCHANGED outcome
    /\ UNCHANGED <<request, locals, libcall, libret, calls, reads>>

IncludedRegion_plus(sequence_length) == <<0, sequence_length + 1>>
IncludedRegion(sequence_length) == <<0, sequence_length>>

\* lines 67-76: the first dictionary
PrimerDesignInput(l) ==
    [SEQUENCE_TEMPLATE |-> l.sequence,
     SEQUENCE_INCLUDED_REGION |-> IncludedRegion(l.sequence_length),
     PRIMER_OPT_GC_PERCENT |-> l.gc_content,
     PRIMER_OPT_SIZE |-> l.primer_length,
     PRIMER_MIN_SIZE |-> l.primer_length - 2,
     PRIMER_MAX_SIZE |-> l.primer_length + 2,
     PRIMER_PRODUCT_SIZE_RANGE |-> l.product_size_range,
     PRIMER_NUM_RETURN |-> NumReturn]

GlobalArgs_wide(l) ==
    [PRIMER_OPT_SIZE |-> l.primer_length,
     PRIMER_MIN_SIZE |-> l.primer_length - 2,
     PRIMER_MAX_SIZE |-> l.primer_length + 2,
     PRIMER_OPT_GC_PERCENT |-> l.gc_content,
     PRIMER_PRODUCT_SIZE_RANGE |-> l.product_size_range,
     PRIMER_NUM_RETURN |-> NumReturn]
\* lines 81-88: the second dictionary
GlobalArgs(l) ==
    [PRIMER_OPT_SIZE |-> l.primer_length,
     PRIMER_MIN_SIZE |-> l.primer_length,
     PRIMER_MAX_SIZE |-> l.primer_length,
     PRIMER_OPT_GC_PERCENT |-> l.gc_content,
     PRIMER_PRODUCT_SIZE_RANGE |-> l.product_size_range,
     PRIMER_NUM_RETURN |-> NumReturn]

\* lines 64-76
BuildInput(h) ==
    /\ pc[h] = "l64"
    /\ LET range == << <<locals[Frame(h)].min_product_size,
                         locals[Frame(h)].max_product_size>> >>
           l == [locals[Frame(h)] EXCEPT !.product_size_range = range]
       IN locals' = [locals EXCEPT ![Frame(h)] =
                       [l EXCEPT !.primer_design_input = PrimerDesignInput(l)]]
    /\ pc' = [pc EXCEPT ![h] = "l79"]
    /\ UNCHANGED <<request, libcall, libret, calls, reads, outcome>>

\* where control goes when designPrimers raises: nothing catches it
OnLibraryError_retry == "l79"
OnLibraryError == "done"

\* lines 79-89: the one call of the library, which returns a mapping or raises
CallLibrary(h) ==
    /\ pc[h] = "l79"
    /\ LET l == locals[Frame(h)]
           seq_args == l.primer_design_input
           global_args == GlobalArgs(l)
       IN /\ libcall' = [libcall EXCEPT ![h] =
                           [seq_args |-> seq_args, global_args |-> global_args]]
          /\ calls' = [calls EXCEPT ![h] = @ + 1]
          /\ \/ /\ pc' = [pc EXCEPT ![h] = OnLibraryError]
                /\ outcome' = [outcome EXCEPT ![h] =
                                 [kind |-> "LibraryError", response |-> NoResponse]]
                /\ libret' = [libret EXCEPT ![h] = [status |-> "raised", result |-> NoResult]]
                /\ UNCHANGED locals
             \/ \E res \in designPrimers(seq_args, global_args) :
                   /\ libret' = [libret EXCEPT ![h] = [status |-> "returned", result |-> res]]
                   /\ locals' = [locals EXCEPT ![Frame(h)].primer_results = res]
                   /\ pc' = [pc EXCEPT ![h] = "l92"]
                   /\ UNCHANGED outcome
    /\ UNCHANGED <<request, reads>>

\* lines 92-99: the fields of pair 0, read by fixed key names
ExtractPair(h) ==
    /\ pc[h] = "l92"
    /\ LET l == locals[Frame(h)]
           res == l.primer_results
       IN IF ~HasKey(res, "PRIMER_LEFT", 0)
          THEN /\ reads' = [reads EXCEPT ![h] = @ \cup {<<"PRIMER_LEFT", 0>>}]
               /\ Raise(h, "KeyError")
               /\ UNCHANGED locals
          ELSE IF ~HasKey(res, "PRIMER_RIGHT", 0)
          THEN /\ reads' = [reads EXCEPT ![h] =
                              @ \cup {<<"PRIMER_LEFT", 0>>, <<"PRIMER_RIGHT", 0>>}]
               /\ Raise(h, "KeyError")
               /\ UNCHANGED locals
          ELSE /\ reads' = [reads EXCEPT ![h] =
                              @ \cup {<<"PRIMER_LEFT", 0>>, <<"PRIMER_RIGHT", 0>>}]
               /\ locals' = [locals EXCEPT ![Frame(h)] =
                    [@ EXCEPT
                       !.left_primer = Key(res, "PRIMER_LEFT", 0).SEQUENCE,
                       !.right_primer = Key(res, "PRIMER_RIGHT", 0).SEQUENCE,
                       !.left_primer_tm = Key(res, "PRIMER_LEFT", 0).TM,
                       !.right_primer_tm = Key(res, "PRIMER_RIGHT", 0).TM,
                       !.left_primer_gc = Key(res, "PRIMER_LEFT", 0).GC_PERCENT,
                       !.right_primer_gc = Key(res, "PRIMER_RIGHT", 0).GC_PERCENT,
                       !.left_primer_penalty = Key(res, "PRIMER_LEFT", 0).PENALTY,
                       !.right_primer_penalty = Key(res, "PRIMER_RIGHT", 0).PENALTY]]
               /\ pc' = [pc EXCEPT ![h] = "l102"]
               /\ UNCHANGED outcome
    /\ UNCHANGED <<request, libcall, libret, calls>>

\* line 102
InitInternal(h) ==
    /\ pc[h] = "l102"
    /\ locals' = [locals EXCEPT ![Frame(h)] =
                    [@ EXCEPT !.internal_primers = <<>>, !.i = 0]]
    /\ pc' = [pc EXCEPT ![h] = "l103"]
    /\ UNCHANGED <<request, libcall, libret, calls, reads, outcome>>

LoopCount_short(primer_results) == primer_results.PRIMER_INTERNAL_NUM_RETURNED - 1
\* line 103: range(primer_results['PRIMER_INTERNAL_NUM_RETURNED'])
LoopCount(primer_results) == primer_results.PRIMER_INTERNAL_NUM_RETURNED

\* lines 105-112
InternalDetail(o) ==
    PrimerDetail(o.SEQUENCE, o.TM, o.GC_PERCENT, o.PENALTY, o.POS[1], o.POS[2])

\* lines 103-113: one iteration of the loop, or its end
LoopInternal(h) ==
    /\ pc[h] = "l103"
    /\ LET l == locals[Frame(h)]
           res == l.primer_results
       IN IF l.i < LoopCount(res)
          THEN /\ reads' = [reads EXCEPT ![h] = @ \cup {<<"PRIMER_INTERNAL", l.i>>}]
               /\ IF HasKey(res, "PRIMER_INTERNAL", l.i)
                  THEN /\ locals' = [locals EXCEPT ![Frame(h)] =
                            [@ EXCEPT
                               !.internal_primers =
                                  Append(@, InternalDetail(Key(res, "PRIMER_INTERNAL", l.i))),
                               !.i = @ + 1]]
                       /\ UNCHANGED <<pc, outcome>>
                  ELSE /\ Raise(h, "KeyError")
                       /\ UNCHANGED locals
          ELSE /\ pc' = [pc EXCEPT ![h] = "l115"]
               /\ UNCHANGED <<locals, reads, outcome>>
    /\ UNCHANGED <<request, libcall, libret, calls>>

Response_swapped(l) ==
    PrimerResponse(
        PrimerDetail(l.right_primer, l.right_primer_tm, l.right_primer_gc,
                     l.right_primer_penalty,
                     Key(l.primer_results, "PRIMER_RIGHT", 0).POS[1],
                     Key(l.primer_results, "PRIMER_RIGHT", 0).POS[2]),
        PrimerDetail(l.left_primer, l.left_primer_tm, l.left_primer_gc,
                     l.left_primer_penalty,
                     Key(l.primer_results, "PRIMER_LEFT", 0).POS[1],
                     Key(l.primer_results, "PRIMER_LEFT", 0).POS[2]),
        l.internal_primers)
\* lines 115-133
Response(l) ==
    PrimerResponse(
        PrimerDetail(l.left_primer, l.left_primer_tm, l.left_primer_gc,
                     l.left_primer_penalty,
                     Key(l.primer_results, "PRIMER_LEFT", 0).POS[1],
                     Key(l.primer_results, "PRIMER_LEFT", 0).POS[2]),
        PrimerDetail(l.right_primer, l.right_primer_tm, l.right_primer_gc,
                     l.right_primer_penalty,
                     Key(l.primer_results, "PRIMER_RIGHT", 0).POS[1],
                     Key(l.primer_results, "PRIMER_RIGHT", 0).POS[2]),
        l.internal_primers)

\* lines 115-133: the position pairs of pair 0 are read and the response returned
Return(h) ==
    /\ pc[h] = "l115"
    /\ LET l == locals[Frame(h)]
           res == l.primer_results
       IN /\ reads' = [reads EXCEPT ![h] =
                         @ \cup {<<"PRIMER_LEFT", 0>>, <<"PRIMER_RIGHT", 0>>}]
          /\ IF HasKey(res, "PRIMER_LEFT", 0) /\ HasKey(res, "PRIMER_RIGHT", 0)
             THEN /\ pc' = [pc EXCEPT ![h] = "done"]
                  /\ outcome' = [outcome EXCEPT ![h] =
                        [kind |-> "PrimerResponse", response |-> Response(l)]]
             ELSE Raise(h, "KeyError")
    /\ UNCHANGED <<request, locals, libcall, libret, calls>>

\* the response or error is handed to the serving layer and the call's frame is gone
Finish(h) ==
    /\ pc[h] = "done"
    /\ pc' = [pc EXCEPT ![h] = "idle"]
    /\ request' = [request EXCEPT ![h] = NoRequest]
    /\ locals' = [locals EXCEPT ![Frame(h)] = NoLocals]
    /\ libcall' = [libcall EXCEPT ![h] = NoArgs]
    /\ libret' = [libret EXCEPT ![h] = NoReturn]
    /\ calls' = [calls EXCEPT ![h] = 0]
    /\ reads' = [reads EXCEPT ![h] = {}]
    /\ outcome' = [outcome EXCEPT ![h] = NoOutcome]

Step(h, requests) ==
    \/ Receive(h, requests)
    \/ ReadRequest(h)
    \/ Guard(h)
    \/ BuildInput(h)
    \/ CallLibrary(h)
    \/ ExtractPair(h)
    \/ InitInternal(h)
    \/ LoopInternal(h)
    \/ Return(h)
    \/ Finish(h)

\* one request at a time, over the whole range of requests
Next == Step(1, PrimerDesignRequest)
Spec == Init /\ [][Next]_vars

\* requests handled concurrently, their statements interleaved
NextConc == \E h \in Handlers : Step(h, ConcRequests)
SpecConc == Init /\ [][NextConc]_vars

(* ------------------------------- claims -------------------------------- *)

\* the request's L and P, and the bound the claims name, written out
L(h) == request[h].sequence.len
P(h) == request[h].primer_length
Floor(h) == IF 2 * P(h) > 50 THEN 2 * P(h) ELSE 50
PastGuard(h) == pc[h] \notin {"idle", "l49", "l60"}
Called(h) == calls[h] > 0
Responded(h) == pc[h] = "done" /\ outcome[h].kind = "PrimerResponse"

\* C1: a request fails with the 'sequence too short' value error if and only if
\* max(2*P, 50) > L, whatever its gc_content.
C1_GuardRejectsIff ==
    \A h \in Handlers :
        PastGuard(h) => ((outcome[h].kind = "ValueError") <=> (Floor(h) > L(h)))

\* a request with max(2*P, 50) = L = 50, P = 25 has passed the guard
C1_Witness ==
    \E h \in Handlers :
        /\ pc[h] = "l64" /\ L(h) = 50 /\ P(h) = 25
        /\ outcome[h].kind # "ValueError"

\* C2: the product size range handed to the library is the single interval
\* (max(2*P, 50), L), the same in both parameter dictionaries.
C2_ProductSizeRange ==
    \A h \in Handlers :
        Called(h) =>
            /\ libcall[h].global_args.PRIMER_PRODUCT_SIZE_RANGE = << <<Floor(h), L(h)>> >>
            /\ libcall[h].seq_args.PRIMER_PRODUCT_SIZE_RANGE
                 = libcall[h].global_args.PRIMER_PRODUCT_SIZE_RANGE

\* the library was called with a range whose minimum is 2*P, above the floor of 50
C2_Witness ==
    \E h \in Handlers :
        /\ Called(h) /\ P(h) = 26
        /\ libcall[h].global_args.PRIMER_PRODUCT_SIZE_RANGE = << <<52, 52>> >>

\* C3: the library is invoked at most once per request: once when the guard
\* passes, never when it rejects, and a library failure ends the request.
C3_OneCall ==
    \A h \in Handlers :
        /\ calls[h] <= 1
        /\ (outcome[h].kind = "ValueError" => calls[h] = 0)
        /\ (pc[h] = "done" => calls[h] = IF Floor(h) <= L(h) THEN 1 ELSE 0)
        /\ (libret[h].status = "raised" => pc[h] = "done")

\* the library failed and the request ended after its one call
C3_Witness ==
    \E h \in Handlers :
        pc[h] = "done" /\ outcome[h].kind = "LibraryError" /\ calls[h] = 1

\* C4: the length of internal_primers equals the internal-oligo count the
\* library reports.
C4_InternalCount ==
    \A h \in Handlers :
        Responded(h) =>
            Len(outcome[h].response.internal_primers)
              = libret[h].result.PRIMER_INTERNAL_NUM_RETURNED

\* a response carrying every internal oligo of a library result that holds several
C4_Witness ==
    \E h \in Handlers :
        /\ Responded(h)
        /\ libret[h].result.PRIMER_INTERNAL_NUM_RETURNED >= 2
        /\ Len(outcome[h].response.internal_primers) >= 2

Projected(o) ==
    [sequence |-> o.SEQUENCE, tm |-> o.TM, gc_percent |-> o.GC_PERCENT,
     penalty |-> o.PENALTY, start |-> o.POS[1], length |-> o.POS[2]]

\* what a request must end with, from its own inputs and its own library result
OwnOutcome(r, lr) ==
    IF (IF 2 * r.primer_length > 50 THEN 2 * r.primer_length ELSE 50) > r.sequence.len
    THEN [kind |-> "ValueError", response |-> NoResponse]
    ELSE IF lr.status = "raised"
    THEN [kind |-> "LibraryError", response |-> NoResponse]
    ELSE IF lr.result.PRIMER_LEFT = <<>> \/ lr.result.PRIMER_RIGHT = <<>>
    THEN [kind |-> "KeyError", response |-> NoResponse]
    ELSE [kind |-> "PrimerResponse",
          response |->
            [left_primer |-> Projected(lr.result.PRIMER_LEFT[1]),
             right_primer |-> Projected(lr.result.PRIMER_RIGHT[1]),
             internal_primers |->
               [i \in 1..Len(lr.result.PRIMER_INTERNAL) |->
                  Projected(lr.result.PRIMER_INTERNAL[i])]]]

\* C6: under any interleaving of concurrently handled requests, the outcome of
\* a request is a function of its own inputs and its own library result only,
\* and requests with equal inputs and equal library results end equally.
C6_Independent ==
    /\ \A h \in Handlers :
         pc[h] = "done" => outcome[h] = OwnOutcome(request[h], libret[h])
    /\ \A g, h \in Handlers :
         (pc[g] = "done" /\ pc[h] = "done"
            /\ request[g] = request[h] /\ libret[g] = libret[h])
         => outcome[g] = outcome[h]

\* two requests handled at the same time have both returned a response, from
\* different library results
C6_Witness ==
    \E g, h \in Handlers :
        /\ g # h /\ Responded(g) /\ Responded(h)
        /\ libret[g] # libret[h]
        /\ outcome[g] # outcome[h]

\* C7: the override configuration fixes the primer size at P, the task
\* configuration carries P-2 and P+2 around the optimum P, and both carry the
\* request's gc_content and a return count of 1.
C7_Configurations ==
    \A h \in Handlers :
        Called(h) =>
            LET task == libcall[h].seq_args
                override == libcall[h].global_args
            IN /\ override.PRIMER_MIN_SIZE = P(h)
               /\ override.PRIMER_MAX_SIZE = P(h)
               /\ override.PRIMER_OPT_SIZE = P(h)
               /\ task.PRIMER_MIN_SIZE = P(h) - 2
               /\ task.PRIMER_MAX_SIZE = P(h) + 2
               /\ task.PRIMER_OPT_SIZE = P(h)
               /\ task.PRIMER_OPT_GC_PERCENT = request[h].gc_content
               /\ override.PRIMER_OPT_GC_PERCENT = request[h].gc_content
               /\ task.PRIMER_NUM_RETURN = 1
               /\ override.PRIMER_NUM_RETURN = 1

\* the library was called for a request with primer_length 25 and gc_content 40
C7_Witness ==
    \E h \in Handlers :
        /\ Called(h) /\ P(h) = 25 /\ request[h].gc_content = 40
        /\ libcall[h].global_args.PRIMER_MIN_SIZE = 25

\* the count the library reports for a kind of result
Reported(res, kind) ==
    CASE kind = "PRIMER_LEFT" -> res.PRIMER_LEFT_NUM_RETURNED
      [] kind = "PRIMER_RIGHT" -> res.PRIMER_RIGHT_NUM_RETURNED
      [] kind = "PRIMER_INTERNAL" -> res.PRIMER_INTERNAL_NUM_RETURNED

\* C8: the handler reads an indexed result key only for an index below the
\* count the library reports for that kind of result, so a result without a
\* primer pair or internal oligo never ends in a read of a missing key.
C8_ReadsBelowCount ==
    \A h \in Handlers :
        /\ \A rd \in reads[h] : rd[2] < Reported(libret[h].result, rd[1])
        /\ outcome[h].kind # "KeyError"

\* C9: the response is an order-preserving projection of the library result:
\* internal_primers[i] carries the fields of the i-th internal oligo,
\* left_primer and right_primer those of pair 0, start from the first and
\* length from the second component of the position pair.
C9_Projection ==
    \A h \in Handlers :
        Responded(h) =>
            LET r == outcome[h].response
                res == libret[h].result
            IN /\ r.left_primer = Projected(res.PRIMER_LEFT[1])
               /\ r.right_primer = Projected(res.PRIMER_RIGHT[1])
               /\ \A i \in 0..(res.PRIMER_INTERNAL_NUM_RETURNED - 1) :
                    r.internal_primers[i + 1] = Projected(res.PRIMER_INTERNAL[i + 1])

\* a response built from a result with two different internal oligos and a
\* left primer that differs from the right one in every field
C9_Witness ==
    \E h \in Handlers :
        /\ Responded(h)
        /\ libret[h].result.PRIMER_INTERNAL_NUM_RETURNED >= 2
        /\ outcome[h].response.internal_primers[1] # outcome[h].response.internal_primers[2]
        /\ LET l == outcome[h].response.left_primer
               r == outcome[h].response.right_primer
           IN /\ l.sequence # r.sequence /\ l.tm # r.tm /\ l.penalty # r.penalty
              /\ l.start # r.start /\ l.start # l.length

\* C10: whenever the library is called, 50 <= min_product_size <=
\* max_product_size = L and 2*P <= L, and the included region is (0, L); this
\* holds for any integer P, also P <= 0.
C10_CallArguments ==
    \A h \in Handlers :
        Called(h) =>
            LET range == libcall[h].global_args.PRIMER_PRODUCT_SIZE_RANGE[1] IN
              /\ 50 <= range[1]
              /\ range[1] <= range[2]
              /\ range[2] = L(h)
              /\ 2 * P(h) <= L(h)
              /\ libcall[h].seq_args.SEQUENCE_INCLUDED_REGION = <<0, L(h)>>

\* the library was called for a request with a primer_length below 1
C10_Witness ==
    \E h \in Handlers :
        /\ Called(h) /\ P(h) <= 0
        /\ libcall[h].global_args.PRIMER_PRODUCT_SIZE_RANGE[1][1] = 50

====
